---- MODULE Spec2Model ----
(***************************************************************************)
(* Model of src/flow_diagram_generator.py (class FlowDiagramGenerator):     *)
(* the flow-file parser, the breadth-first level assignment with its grid  *)
(* layout and fallback pass, and the render-feedback loop                  *)
(* refine_until_clean.                                                     *)
(*                                                                         *)
(* Node ids are strings; they are modelled as sequences of character codes *)
(* so that Python's sorted() on strings is a real lexicographic sort.      *)
(* Descriptions and branch labels are carried by no claim and influence no *)
(* level, position or control decision; they are left out of the records.  *)
(* Input files are well formed (every record has an id and a description)  *)
(* and ids are unique, as the data model requires.                         *)
(***************************************************************************)
EXTENDS Integers, Sequences, FiniteSets, TLC

VARIABLES
    input_txt,      \* the flow file: a sequence of records [id, tgts]
    cell_width,     \* self.cell_width
    cell_height,    \* self.cell_height
    nodes,          \* local `nodes` of the current attempt: ids in dict order
    edges,          \* local `edges` of the current attempt: sequence of [src, tgt]
    level_map,      \* local `level_map` of the last layout call
    positions,      \* local `positions`: the PositionMap that was returned
    output_xml,     \* content of the persisted diagram file (self.output_xml)
    pc,             \* control position
    max_attempts,   \* argument of refine_until_clean
    it,             \* next value the range(max_attempts) iterator will yield
    attempt,        \* loop variable `attempt` (0-based), -1 before the first
    rv,             \* value returned by the last render_and_validate call
    ret,            \* value refine_until_clean returned to its caller
    verdicts,       \* history: renderer outcome of every invocation so far
    layouts,        \* history: <<cell_width, cell_height>> of every layout call
    stdout          \* history: messages printed so far

vars == <<input_txt, cell_width, cell_height, nodes, edges, level_map, positions,
          output_xml, pc, max_attempts, it, attempt, rv, ret, verdicts, layouts,
          stdout>>

-----------------------------------------------------------------------------
(* Bounds and program constants *)

MaxEdges == 4
MaxGrown == 1
MaxMaxAttempts == 5

InitialCellWidth == 250
InitialCellHeight == 120
WidthIncrement == 40
HeightIncrement == 30
LeftMargin == 60
TopMargin == 40

\* "A", "AB", "B" as character codes
IdA == <<65>>
IdAB == <<65, 66>>
IdB == <<66>>
NodeIds == {IdA, IdAB, IdB}

Unset == "unset"
None == "None"

-----------------------------------------------------------------------------
(* Helpers for Python built-ins *)

Max(S) == CHOOSE x \in S : \A y \in S : y <= x

Range(s) == {s[i] : i \in DOMAIN s}

RECURSIVE StrLess(_, _)
\* Python's < on str: code point by code point, a proper prefix is smaller
StrLess(a, b) ==
    IF b = <<>> THEN FALSE
    ELSE IF a = <<>> THEN TRUE
    ELSE IF Head(a) # Head(b) THEN Head(a) < Head(b)
    ELSE StrLess(Tail(a), Tail(b))

RECURSIVE Sorted(_)
\* sorted(row_nodes): ascending sequence of a collection of distinct strings
Sorted(S) ==
    IF S = {} THEN <<>>
    ELSE LET m == CHOOSE x \in S : \A y \in S : x = y \/ StrLess(x, y)
         IN  <<m>> \o Sorted(S \ {m})

IndexOf(s, x) == CHOOSE i \in DOMAIN s : s[i] = x

RECURSIVE Flatten(_)
Flatten(ss) == IF ss = <<>> THEN <<>> ELSE Head(ss) \o Flatten(Tail(ss))

-----------------------------------------------------------------------------
(* parse_flow_file *)

\* edges appended while reading one record, in field order
RecordEdges(r) == [i \in 1..Len(r.tgts) |-> [src |-> r.id, tgt |-> r.tgts[i]]]

\* returns the dict keys of `nodes` in insertion order and the list `edges`
ParseFlowFile(lines) ==
    [nodes |-> LET first(i) == \A j \in 1..(i - 1) : lines[j].id # lines[i].id
                   keep == SelectSeq([i \in 1..Len(lines) |-> i], first)
               IN  [k \in 1..Len(keep) |-> lines[keep[k]].id],
     edges |-> Flatten([i \in 1..Len(lines) |-> RecordEdges(lines[i])])]

-----------------------------------------------------------------------------
(* assign_clustered_grid_positions *)

\* parents[n] after the loop of lines 39-40
Parents(es, n) == {es[i].src : i \in {j \in DOMAIN es : es[j].tgt = n}}

\* keys of the defaultdict `parents` when the queue is built (line 42)
ParentKeys(es) == {es[i].tgt : i \in DOMAIN es}

\* level_map.get(p, -1)
LevelGet(lm, p) == IF p \in DOMAIN lm THEN lm[p] ELSE -1

\* deque([n for n in nodes if n not in parents])
InitialQueue(ns, es) == SelectSeq(ns, LAMBDA n : n \notin ParentKeys(es))

\* targets appended to the queue after visiting `node` (lines 49-51)
Enqueued(es, node, visited) ==
    LET hit(e) == e.src = node /\ e.tgt \notin visited
        sel == SelectSeq(es, hit)
    IN  [i \in 1..Len(sel) |-> sel[i].tgt]

\* max([level_map.get(p, -1) for p in parents[node]], default=-1) + 1
NodeLevel(lm, es, node) ==
    Max({LevelGet(lm, p) : p \in Parents(es, node)} \cup {-1}) + 1

\* one iteration of the while loop (lines 45-51) on the loop's variables
BfsIteration(st, es) ==
    LET node == Head(st.queue)
        visited2 == st.visited \cup {node}
    IN  [queue |-> Tail(st.queue) \o Enqueued(es, node, visited2),
         visited |-> visited2,
         level_map |-> (node :> NodeLevel(st.level_map, es, node)) @@ st.level_map]

RECURSIVE Bfs(_, _)
\* the while loop of lines 44-51; returns the final level_map.  The quantifier
\* binds the next loop state to its value, so each iteration is computed once.
Bfs(st, es) ==
    IF st.queue = <<>> THEN st.level_map
    ELSE CHOOSE lm \in {Bfs(next, es) : next \in {BfsIteration(st, es)}} : TRUE

LevelMap(ns, es) ==
    Bfs([queue |-> InitialQueue(ns, es), visited |-> {}, level_map |-> <<>>], es)

\* level_rows[lvl] as a collection
LevelRow(lm, lvl) == {n \in DOMAIN lm : lm[n] = lvl}

\* mutant: the column index is dropped from x
GridPositionMutNoColumn(lm, n, cw, ch) ==
    <<LeftMargin, lm[n] * ch + TopMargin>>

\* lines 58-62: position of a node that has a level
GridPosition(lm, n, cw, ch) ==
    <<(IndexOf(Sorted(LevelRow(lm, lm[n])), n) - 1) * cw + LeftMargin,
      lm[n] * ch + TopMargin>>

GridPositions(lm, cw, ch) == [n \in DOMAIN lm |-> GridPosition(lm, n, cw, ch)]

\* line 66: the fallback placement, given the map built so far
FallbackPosition(pos, ch) ==
    <<LeftMargin, (Cardinality(DOMAIN pos) + 1) * ch + TopMargin>>

\* one iteration of the loop of lines 64-66
FallbackIteration(node, pos, ch) ==
    IF node \in DOMAIN pos THEN pos
    ELSE (node :> FallbackPosition(pos, ch)) @@ pos

RECURSIVE Fallback(_, _, _)
\* the loop of lines 64-66 over the remaining nodes `rest`
Fallback(rest, pos, ch) ==
    IF rest = <<>> THEN pos
    ELSE CHOOSE r \in {Fallback(Tail(rest), next, ch) :
                          next \in {FallbackIteration(Head(rest), pos, ch)}} : TRUE

AssignClusteredGridPositions(ns, es, cw, ch) ==
    Fallback(ns, GridPositions(LevelMap(ns, es), cw, ch), ch)

-----------------------------------------------------------------------------
(* build_drawio_xml, reduced to what the layout decides: one box per entry *)
(* of `nodes` at positions[nid], one connector per edge, in list order     *)

BuildDrawioXml(ns, es, pos) ==
    [boxes |-> [n \in Range(ns) |-> pos[n]], connectors |-> es]

-----------------------------------------------------------------------------
(* render_and_validate: the outcomes of the external tool and the scoring *)

Outcomes == {"clean", "not_clean", "tool_failed", "tool_not_found"}

\* mutant: the CalledProcessError handler falls through to scoring a stale image
RenderReturnMutFailureIsClean(o) == o \in {"clean", "tool_failed"}

\* the bool render_and_validate returns (lines 143-153)
RenderReturn(o) == o = "clean"

\* what render_and_validate prints (lines 144, 147)
RenderPrints(o) ==
    IF o = "tool_failed" THEN <<"Draw.io CLI error">>
    ELSE IF o = "tool_not_found" THEN <<"Draw.io CLI not found">>
    ELSE <<>>

\* the bare `return` of line 164 and the implicit return after the loop
CleanReturnValue == None
ExhaustedReturnValue == None

-----------------------------------------------------------------------------
(* Flow files the loop is run on *)

\* "A;Start;B" / "B;End"
ScenarioChain == <<[id |-> IdA, tgts |-> <<IdB>>], [id |-> IdB, tgts |-> <<>>]>>
\* "A;..;AB;B" / "AB;..;B" / "B;.."
ScenarioJoin == <<[id |-> IdA, tgts |-> <<IdAB, IdB>>],
                  [id |-> IdAB, tgts |-> <<IdB>>],
                  [id |-> IdB, tgts |-> <<>>]>>
\* "A;..;" / "B;..;B" : a root and a node on a cycle without entry
ScenarioCycle == <<[id |-> IdA, tgts |-> <<>>], [id |-> IdB, tgts |-> <<IdB>>]>>
LoopInputs == {ScenarioChain, ScenarioJoin, ScenarioCycle}

NoLevels == <<>>
NoPositions == <<>>
NoFile == <<>>

-----------------------------------------------------------------------------
(* Initial states *)

\* a fresh FlowDiagramGenerator whose refine_until_clean(max_attempts) was called
InitLoop ==
    /\ input_txt \in LoopInputs
    /\ max_attempts \in 0..MaxMaxAttempts
    /\ cell_width = InitialCellWidth
    /\ cell_height = InitialCellHeight
    /\ nodes = <<>> /\ edges = <<>>
    /\ level_map = NoLevels /\ positions = NoPositions
    /\ output_xml = NoFile
    /\ pc = "for"
    /\ it = 0 /\ attempt = -1
    /\ rv = FALSE /\ ret = Unset
    /\ verdicts = <<>> /\ layouts = <<>> /\ stdout = <<>>

\* a generator whose spacing is one the loop can have produced, about to parse a
\* flow file that is still being written
InitLayout ==
    /\ input_txt = <<>>
    /\ max_attempts = 0
    /\ \E g \in 0..MaxGrown :
          /\ cell_width = InitialCellWidth + g * WidthIncrement
          /\ cell_height = InitialCellHeight + g * HeightIncrement
    /\ nodes = <<>> /\ edges = <<>>
    /\ level_map = NoLevels /\ positions = NoPositions
    /\ output_xml = NoFile
    /\ pc = "parse"
    /\ it = 0 /\ attempt = -1
    /\ rv = FALSE /\ ret = Unset
    /\ verdicts = <<>> /\ layouts = <<>> /\ stdout = <<>>

-----------------------------------------------------------------------------
(* The author of the flow file *)

NumEdges(lines) == Len(Flatten([i \in 1..Len(lines) |-> lines[i].tgts]))

WriteRecord ==
    /\ pc = "parse"
    /\ \E id \in NodeIds :
          /\ \A i \in DOMAIN input_txt : input_txt[i].id # id
          /\ input_txt' = Append(input_txt, [id |-> id, tgts |-> <<>>])
    /\ UNCHANGED <<cell_width, cell_height, nodes, edges, level_map, positions,
                   output_xml, pc, max_attempts, it, attempt, rv, ret, verdicts,
                   layouts, stdout>>

WriteTarget ==
    /\ pc = "parse"
    /\ input_txt # <<>>
    /\ NumEdges(input_txt) < MaxEdges
    /\ \E t \in NodeIds :
          LET n == Len(input_txt)
          IN  input_txt' = [input_txt EXCEPT ![n].tgts = Append(@, t)]
    /\ UNCHANGED <<cell_width, cell_height, nodes, edges, level_map, positions,
                   output_xml, pc, max_attempts, it, attempt, rv, ret, verdicts,
                   layouts, stdout>>

-----------------------------------------------------------------------------
(* refine_until_clean, one action per statement of the loop body *)

\* mutant: the loop bound is off by one
ForNextMutOffByOne ==
    /\ pc = "for"
    /\ IF it <= max_attempts
       THEN /\ attempt' = it
            /\ it' = it + 1
            /\ pc' = "parse"
            /\ ret' = ret
       ELSE /\ pc' = "loop_end"
            /\ ret' = ExhaustedReturnValue
            /\ UNCHANGED <<attempt, it>>
    /\ UNCHANGED <<input_txt, cell_width, cell_height, nodes, edges, level_map,
                   positions, output_xml, max_attempts, rv, verdicts, layouts,
                   stdout>>

\* line 156: for attempt in range(max_attempts); falling out of the loop returns
ForNext ==
    /\ pc = "for"
    /\ IF it < max_attempts
       THEN /\ attempt' = it
            /\ it' = it + 1
            /\ pc' = "parse"
            /\ ret' = ret
       ELSE /\ pc' = "loop_end"
            /\ ret' = ExhaustedReturnValue
            /\ UNCHANGED <<attempt, it>>
    /\ UNCHANGED <<input_txt, cell_width, cell_height, nodes, edges, level_map,
                   positions, output_xml, max_attempts, rv, verdicts, layouts,
                   stdout>>

\* line 157
ParseStep ==
    /\ pc = "parse"
    /\ nodes' = ParseFlowFile(input_txt).nodes
    /\ edges' = ParseFlowFile(input_txt).edges
    /\ pc' = "assign"
    /\ UNCHANGED <<input_txt, cell_width, cell_height, level_map, positions,
                   output_xml, max_attempts, it, attempt, rv, ret, verdicts,
                   layouts, stdout>>

\* line 158
AssignStep ==
    /\ pc = "assign"
    /\ level_map' = LevelMap(nodes, edges)
    /\ positions' = AssignClusteredGridPositions(nodes, edges, cell_width, cell_height)
    /\ layouts' = Append(layouts, <<cell_width, cell_height>>)
    /\ pc' = "build"
    /\ UNCHANGED <<input_txt, cell_width, cell_height, nodes, edges, output_xml,
                   max_attempts, it, attempt, rv, ret, verdicts, stdout>>

\* lines 159-161
BuildAndWrite ==
    /\ pc = "build"
    /\ output_xml' = <<BuildDrawioXml(nodes, edges, positions)>>
    /\ pc' = "render"
    /\ UNCHANGED <<input_txt, cell_width, cell_height, nodes, edges, level_map,
                   positions, max_attempts, it, attempt, rv, ret, verdicts,
                   layouts, stdout>>

\* line 162, the call: render_and_validate runs and returns
RenderAndValidate ==
    /\ pc = "render"
    /\ \E o \in Outcomes :
          /\ verdicts' = Append(verdicts, o)
          /\ rv' = RenderReturn(o)
          /\ stdout' = stdout \o RenderPrints(o)
    /\ pc' = "branch"
    /\ UNCHANGED <<input_txt, cell_width, cell_height, nodes, edges, level_map,
                   positions, output_xml, max_attempts, it, attempt, ret, layouts>>

\* mutant: the `return` after a clean verdict is missing
BranchMutNoReturn ==
    /\ pc = "branch"
    /\ IF rv
       THEN /\ stdout' = Append(stdout, "Clean diagram generated.")
            /\ pc' = "for"
            /\ UNCHANGED <<cell_width, cell_height, ret>>
       ELSE /\ cell_width' = cell_width + WidthIncrement
            /\ cell_height' = cell_height + HeightIncrement
            /\ stdout' = Append(stdout, "Retrying with more spacing...")
            /\ pc' = "for"
            /\ ret' = ret
    /\ UNCHANGED <<input_txt, nodes, edges, level_map, positions, output_xml,
                   max_attempts, it, attempt, rv, verdicts, layouts>>

\* mutant: the height grows by the width's increment
BranchMutSwappedIncrement ==
    /\ pc = "branch"
    /\ IF rv
       THEN /\ stdout' = Append(stdout, "Clean diagram generated.")
            /\ ret' = CleanReturnValue
            /\ pc' = "return_164"
            /\ UNCHANGED <<cell_width, cell_height>>
       ELSE /\ cell_width' = cell_width + WidthIncrement
            /\ cell_height' = cell_height + WidthIncrement
            /\ stdout' = Append(stdout, "Retrying with more spacing...")
            /\ pc' = "for"
            /\ ret' = ret
    /\ UNCHANGED <<input_txt, nodes, edges, level_map, positions, output_xml,
                   max_attempts, it, attempt, rv, verdicts, layouts>>

\* lines 162-168: the if/else on the returned value
Branch ==
    /\ pc = "branch"
    /\ IF rv
       THEN /\ stdout' = Append(stdout, "Clean diagram generated.")
            /\ ret' = CleanReturnValue
            /\ pc' = "return_164"
            /\ UNCHANGED <<cell_width, cell_height>>
       ELSE /\ cell_width' = cell_width + WidthIncrement
            /\ cell_height' = cell_height + HeightIncrement
            /\ stdout' = Append(stdout, "Retrying with more spacing...")
            /\ pc' = "for"
            /\ ret' = ret
    /\ UNCHANGED <<input_txt, nodes, edges, level_map, positions, output_xml,
                   max_attempts, it, attempt, rv, verdicts, layouts>>

-----------------------------------------------------------------------------
(* Specifications *)

NextLoop ==
    \/ ForNext
    \/ ParseStep
    \/ AssignStep
    \/ BuildAndWrite
    \/ RenderAndValidate
    \/ Branch

\* The loop is single-threaded and synchronous and every renderer call returns,
\* so an enabled step is eventually taken.
SpecLoop == InitLoop /\ [][NextLoop]_vars /\ WF_vars(NextLoop)

NextLayout ==
    \/ WriteRecord
    \/ WriteTarget
    \/ ParseStep
    \/ AssignStep

SpecLayout == InitLayout /\ [][NextLayout]_vars

-----------------------------------------------------------------------------
(* Properties of refine_until_clean (checked under SpecLoop) *)

Clean == pc = "return_164"
Exhausted == pc = "loop_end"
Terminated == Clean \/ Exhausted

Last(s) == s[Len(s)]

\* spacing the layout of attempt n (1-based) is expected to use
SpacingOfAttempt(n) ==
    <<InitialCellWidth + WidthIncrement * (n - 1),
      InitialCellHeight + HeightIncrement * (n - 1)>>

\* C1: once the renderer could not be invoked at all (tool not found) in some
\* attempt, the loop aborts: no further attempt is started, the renderer is not
\* invoked again, and the spacing stays what it was in that attempt.
C1_AbortOnToolNotFound ==
    \A i \in 1..Len(verdicts) :
        verdicts[i] = "tool_not_found" =>
            /\ Len(verdicts) = i
            /\ it = i
            /\ <<cell_width, cell_height>> = SpacingOfAttempt(i)

\* C3: the renderer is never invoked more than max_attempts times; the loop
\* eventually terminates; it terminates in Clean (last verdict clean) or in
\* Exhausted (max_attempts invocations, none clean); and a terminated loop takes
\* no further step.
C3_TerminatesWithinMaxAttempts ==
    /\ [](Len(verdicts) <= max_attempts)
    /\ <>Terminated
    /\ [](Clean => Last(verdicts) = "clean")
    /\ [](Exhausted => /\ Len(verdicts) = max_attempts
                       /\ "clean" \notin Range(verdicts))
    /\ [][Terminated => UNCHANGED vars]_vars

C3_Witness ==
    /\ Exhausted
    /\ Len(verdicts) = max_attempts
    /\ max_attempts >= 3
    /\ "tool_not_found" \in Range(verdicts)
    /\ "tool_failed" \in Range(verdicts)

\* C4: the value returned to the caller on exhaustion differs from the value
\* returned after a clean verdict.
C4_ExhaustedDistinctFromClean ==
    (Exhausted /\ max_attempts >= 1) => ret # CleanReturnValue

\* C5: when the loop has returned on a clean verdict, that verdict is the first
\* clean one, it came at attempt n = number of renderer invocations = number of
\* layouts, and the persisted document is the one built from the layout of
\* attempt n; and once a clean verdict has been given, nothing is parsed, laid
\* out, emitted or rendered again and the spacing does not change.
C5_StopsAtFirstClean ==
    /\ [](Clean =>
            LET n == Len(verdicts)
            IN  /\ n >= 1 /\ n <= max_attempts
                /\ verdicts[n] = "clean"
                /\ \A i \in 1..(n - 1) : verdicts[i] # "clean"
                /\ attempt = n - 1
                /\ Len(layouts) = n
                /\ output_xml =
                     <<BuildDrawioXml(
                         ParseFlowFile(input_txt).nodes,
                         ParseFlowFile(input_txt).edges,
                         AssignClusteredGridPositions(
                             ParseFlowFile(input_txt).nodes,
                             ParseFlowFile(input_txt).edges,
                             layouts[n][1], layouts[n][2]))>>)
    /\ [][("clean" \in Range(verdicts)) =>
            UNCHANGED <<nodes, edges, level_map, positions, output_xml, verdicts,
                        layouts, cell_width, cell_height, it, attempt>>]_vars

C5_Witness ==
    /\ Clean
    /\ verdicts = <<"not_clean", "not_clean", "clean">>
    /\ <<cell_width, cell_height>> = SpacingOfAttempt(3)

\* C6: the layout of attempt n is computed with cell_width = 250 + 40*(n-1) and
\* cell_height = 120 + 30*(n-1); the positions of an attempt are those of that
\* spacing; neither value ever decreases, and both grow strictly when an attempt
\* fails.
C6_SpacingGrowsPerFailedAttempt ==
    /\ [](\A n \in 1..Len(layouts) : layouts[n] = SpacingOfAttempt(n))
    /\ [](pc \in {"build", "render", "branch"} =>
            /\ Len(layouts) = attempt + 1
            /\ positions = AssignClusteredGridPositions(
                               nodes, edges,
                               SpacingOfAttempt(attempt + 1)[1],
                               SpacingOfAttempt(attempt + 1)[2]))
    /\ [][/\ cell_width' >= cell_width
          /\ cell_height' >= cell_height
          /\ (pc = "branch" /\ Last(verdicts) # "clean") =>
                (cell_width' > cell_width /\ cell_height' > cell_height)]_vars

C6_Witness ==
    /\ pc = "build"
    /\ Len(layouts) = 3
    /\ Last(layouts) = <<330, 180>>
    /\ <<cell_width, cell_height>> = <<330, 180>>

\* C9: when the tool ran but failed in attempt n < max_attempts, the loop does
\* not return: it adds 40 to cell_width and 30 to cell_height, exactly as for a
\* 'not clean' verdict, and the next step starts attempt n+1.
C9_ToolFailedRetries ==
    /\ [][(pc = "branch" /\ Last(verdicts) = "tool_failed"
             /\ attempt + 1 < max_attempts) =>
            /\ cell_width' = cell_width + 40
            /\ cell_height' = cell_height + 30
            /\ pc' = "for"
            /\ it' < max_attempts
            /\ ret' = Unset]_vars
    /\ [][(pc = "for" /\ verdicts # <<>> /\ Last(verdicts) = "tool_failed"
             /\ it < max_attempts) =>
            /\ pc' = "parse"
            /\ attempt' = attempt + 1]_vars
    /\ [](\A i \in 1..Len(verdicts) :
            (verdicts[i] = "tool_failed" /\ i < max_attempts /\ Len(layouts) > i)
                => layouts[i + 1] = <<layouts[i][1] + 40, layouts[i][2] + 30>>)

C9_Witness ==
    /\ pc = "parse"
    /\ verdicts # <<>>
    /\ Last(verdicts) = "tool_failed"
    /\ attempt = Len(verdicts)
    /\ cell_width = InitialCellWidth + 40 * Len(verdicts)

-----------------------------------------------------------------------------
(* Properties of assign_clustered_grid_positions (checked under SpecLayout) *)

LaidOut == pc = "build"

EdgeSet == Range(edges)

\* every id the graph mentions: record ids and edge targets
GraphNodes == Range(nodes) \cup {e.tgt : e \in EdgeSet}

Successors(S) == {e.tgt : e \in {d \in EdgeSet : d.src \in S}}

RECURSIVE ReachableIn(_, _)
\* nodes reachable from S by 1..k+1 edges
ReachableIn(S, k) ==
    IF k = 0 THEN Successors(S)
    ELSE Successors(S) \cup ReachableIn(Successors(S), k - 1)

Acyclic == \A n \in GraphNodes : n \notin ReachableIn({n}, Cardinality(GraphNodes))

\* all orders of the elements of a sequence
Reorderings(s) ==
    {[i \in 1..Len(s) |-> s[f[i]]] : f \in Permutations(1..Len(s))}

\* the flow files with the same records as `lines`, the edge fields of each
\* record in any order
FieldReorderings(lines) ==
    {fl \in [1..Len(lines) -> UNION {[id : {lines[i].id},
                                      tgts : Reorderings(lines[i].tgts)] :
                                         i \in 1..Len(lines)}] :
        \A i \in 1..Len(lines) :
            /\ fl[i].id = lines[i].id
            /\ fl[i].tgts \in Reorderings(lines[i].tgts)}

\* the flow files with the same records in any order, fields in any order
InputReorderings(lines) ==
    UNION {FieldReorderings(rl) : rl \in Reorderings(lines)}

MaxLevel == Max({level_map[n] : n \in DOMAIN level_map} \cup {-1})

\* C2: in an acyclic graph every node has a level, every edge goes to a strictly
\* deeper level, a node with parents is at 1 + the maximum of its parents' final
\* levels, and a node without incoming edge is at level 0.
C2_LevelsRespectEdges ==
    (LaidOut /\ Acyclic) =>
        /\ GraphNodes \subseteq DOMAIN level_map
        /\ \A e \in EdgeSet : level_map[e.tgt] > level_map[e.src]
        /\ \A n \in GraphNodes :
              level_map[n] =
                  IF Parents(edges, n) = {} THEN 0
                  ELSE 1 + Max({level_map[p] : p \in Parents(edges, n)})

\* C7: in an acyclic graph the levels are the same for every order of the
\* records of the flow file and of the edge fields inside each record.
C7_LevelsIndependentOfInputOrder ==
    (LaidOut /\ Acyclic) =>
        \A other \in InputReorderings(input_txt) :
            LevelMap(ParseFlowFile(other).nodes, ParseFlowFile(other).edges)
                = level_map

Unreached == SelectSeq(nodes, LAMBDA n : n \notin DOMAIN level_map)

\* C10: no record id is missing from the PositionMap, and when some row is
\* occupied, the k-th node the traversal never reached is at x = 60 in the row
\* directly below the lowest row occupied when it is placed.
C10_FallbackDirectlyBelow ==
    LaidOut =>
        /\ Range(nodes) \subseteq DOMAIN positions
        /\ level_map # NoLevels =>
              \A k \in 1..Len(Unreached) :
                  positions[Unreached[k]] =
                      <<60, (MaxLevel + k) * cell_height + 40>>

====
